---- MODULE Spec2Model ----
(***************************************************************************)
(* Clock-divider configuration of the C-SKY I2S controller driver          *)
(* (sound/soc/csky/csky-i2s.c): struct csky_i2s, the DAI callbacks set_fmt, *)
(* set_sysclk and hw_params, and the divider calculators behind            *)
(* csky_i2s_set_clk_rate.                                                  *)
(*                                                                         *)
(* Frequencies are u32 in the driver.  Every frequency of the bounded      *)
(* domain is below 2^31, so the only 32-bit wrap that can happen is the    *)
(* unsigned "0 - 1" of the divider formulas, which the assignment to an    *)
(* int turns into -1; U32MinusOneToInt models exactly that conversion.     *)
(***************************************************************************)
EXTENDS Integers, Sequences, FiniteSets, TLC

VARIABLES i2s, call

vars == <<i2s, call>>

(***************************************************************************)
(* Bounds of the input domains: each list is used up to its bound.         *)
(***************************************************************************)
MaxRates == 3
MaxMclks == 4

RateList ==
    <<48000, 44100, 12000, 8000, 96000, 11025, 16000, 22050, 32000, 88200>>
MclkList ==
    <<12288000, 24576000, 11289600, 3072000, 2048000, 10000000, 4096000>>


Prefix(list, n) ==
    {list[k] : k \in 1..(IF n < Len(list) THEN n ELSE Len(list))}

Rates == Prefix(RateList, MaxRates)
Mclks == {0} \cup Prefix(MclkList, MaxMclks)
\* values of the "clock-frequency" device-tree property
SrcClks == {24576000, 49152000}

EINVAL == 22

\* values of the "sclk-fs-divider" device-tree property (0: absent, kzalloc)
DtSclkFsDividers == {0, 32}
\* rates of the two family clocks "clk-for-fs-48k" and "clk-for-fs-44k"
ClkFs48kValues == {24576000}
ClkFs44kValues == {22579200}
\* what clk_get_rate may read back after clk_set_rate(clk, req): the rate asked
\* for, or the rate the clock provider rounded it to
ClkReadBack(req) == {req, 4096000}
\* <<clk_set_rate's return, clk_get_rate's value>> of one call on a settable
\* clock (no read-back after a failure), and the one case without a clk handle
ClkOutcomes(req) == {<<0, r>> : r \in ClkReadBack(req)} \cup {<<-EINVAL, 0>>}
NoClk == {<<0, 0>>}

\* <<params_channels, params_physical_width, params_width>>
PcmParams == {<<2, 16, 16>>, <<3, 16, 16>>, <<2, 8, 8>>}

\* <<format, inversion, master>> parts of the fmt argument of set_fmt
DaiFmts ==
    {<<f, "SND_SOC_DAIFMT_NB_NF", "SND_SOC_DAIFMT_CBS_CFS">> :
        f \in {"SND_SOC_DAIFMT_I2S", "SND_SOC_DAIFMT_LEFT_J",
               "SND_SOC_DAIFMT_RIGHT_J", "SND_SOC_DAIFMT_DSP_A"}}
    \cup {<<"SND_SOC_DAIFMT_I2S", "SND_SOC_DAIFMT_IB_NF", "SND_SOC_DAIFMT_CBS_CFS">>,
          <<"SND_SOC_DAIFMT_I2S", "SND_SOC_DAIFMT_NB_NF", "SND_SOC_DAIFMT_CBM_CFS">>}

DivRegs == {"IIS_DIV0_LEVEL", "IIS_DIV1_LEVEL", "IIS_DIV2_LEVEL",
            "IIS_DIV3_LEVEL", "IIS_DIV4_LEVEL"}

(***************************************************************************)
(* Helpers                                                                 *)
(***************************************************************************)

\* a divider formula that clamps at 0 instead of wrapping to -1
U32MinusOneClamped(q) == IF q = 0 THEN 0 ELSE q - 1

\* int div = <unsigned q> - 1;
U32MinusOneToInt(q) == IF q = 0 THEN -1 ELSE q - 1

\* csky_i2s_writel on one of the modelled registers
csky_i2s_writel(s, reg, val) == [s EXCEPT !.regs[reg] = val]

Rates48k == {8000, 16000, 32000, 48000, 96000}
Rates44k == {11025, 22050, 44100, 88200}

(***************************************************************************)
(* The divider calculators.  Each returns [ret, msg, s]: the int returned, *)
(* the dev_err message printed ("" when none) and the updated state.       *)
(***************************************************************************)

\* the multiple-of-fs check left out
MclkNotMultiple_unchecked(mclk, rate) == FALSE

\* line 81: if (mclk % rate)
MclkNotMultiple(mclk, rate) == mclk % rate # 0

\* a ratio check that accepts every multiple of 128 from 256 up
InvalidRatioV1_1_multiples(s, mclk_fs_div) ==
    mclk_fs_div < 256 \/ mclk_fs_div % 128 # 0

\* a ratio check that lets any non-zero ratio pass once a ratio is cached
InvalidRatioV1_1_cached(s, mclk_fs_div) ==
    /\ s.mclk_fs_divider = 0 \/ mclk_fs_div = 0
    /\ mclk_fs_div # 256 /\ mclk_fs_div # 384
    /\ mclk_fs_div # 512 /\ mclk_fs_div # 768

\* lines 89-90: the ratio check of csky,i2s-v1.1
InvalidRatioV1_1(s, mclk_fs_div) ==
    /\ mclk_fs_div # 256 /\ mclk_fs_div # 384
    /\ mclk_fs_div # 512 /\ mclk_fs_div # 768

\* a v1 ratio check that takes the 1/8 path for every format
InvalidRatioV1_always8(s, mclk_fs_div) ==
    IF mclk_fs_div # 8 * s.sclk_fs_divider THEN "mclk != 8*sclk" ELSE ""

\* lines 96-107: the ratio check of csky,i2s-v1; the message of the check
\* that fails, "" when the ratio is accepted
InvalidRatioV1(s, mclk_fs_div) ==
    IF s.audio_fmt \in {"SND_SOC_DAIFMT_I2S", "SND_SOC_DAIFMT_LEFT_J"}
    THEN (IF mclk_fs_div # 8 * s.sclk_fs_divider THEN "mclk != 8*sclk" ELSE "")
    ELSE (IF mclk_fs_div # 4 * s.sclk_fs_divider THEN "mclk != 4*sclk" ELSE "")

\* the round trip left out
MclkMismatch_unchecked(s, mclk, div) == FALSE

\* lines 114-116: the round trip of a non-negative divider
MclkMismatch(s, mclk, div) ==
    div >= 0 /\ s.src_clk \div (2 * (div + 1)) # mclk

csky_i2s_calc_mclk_div(s, rate, word_size) ==
    LET mclk == s.mclk
        mclk_fs_div == mclk \div rate
        s1 == [s EXCEPT !.mclk_fs_divider = mclk_fs_div]
        div == U32MinusOneToInt((s.src_clk \div 2) \div mclk)
    IN  IF MclkNotMultiple(mclk, rate)
        THEN [ret |-> -EINVAL, msg |-> "mclk is not a multiple of fs", s |-> s]
        ELSE IF s.has_mclk_sclk_div /\ InvalidRatioV1_1(s, mclk_fs_div)
        THEN [ret |-> -EINVAL, msg |-> "invalid mclk_fs_div", s |-> s]
        ELSE IF ~s.has_mclk_sclk_div /\ InvalidRatioV1(s, mclk_fs_div) # ""
        THEN [ret |-> -EINVAL, msg |-> InvalidRatioV1(s, mclk_fs_div), s |-> s]
        ELSE IF MclkMismatch(s, mclk, div)
        THEN [ret |-> -EINVAL, msg |-> "mclk mismatch", s |-> s1]
        ELSE [ret |-> div, msg |-> "", s |-> s1]

csky_i2s_calc_spdifclk_div(s, rate, word_size) ==
    [ret |-> 17, msg |-> "", s |-> s]

\* a frame-sync calculator that writes its register at once
csky_i2s_calc_fs_div_writes(s, word_size) ==
    [ret |-> 31, msg |-> "",
     s |-> csky_i2s_writel([s EXCEPT !.sclk_fs_divider = 64],
                           "IIS_DIV2_LEVEL", 31)]

\* a frame-sync calculator that keeps a ratio given by the device tree
csky_i2s_calc_fs_div_keeps(s, word_size) ==
    [ret |-> 31, msg |-> "",
     s |-> IF s.sclk_fs_divider = 0 THEN [s EXCEPT !.sclk_fs_divider = 64]
           ELSE s]

csky_i2s_calc_fs_div(s, word_size) ==
    LET multi == 64
    IN  [ret |-> U32MinusOneToInt(multi \div 2), msg |-> "",
         s |-> [s EXCEPT !.sclk_fs_divider = multi]]

csky_i2s_calc_sclk_div(s) ==
    LET multi == s.mclk_fs_divider \div s.sclk_fs_divider
    IN  [ret |-> U32MinusOneToInt(multi \div 2), msg |-> "", s |-> s]

\* a reference-clock calculator whose default case falls into clk_domain_4
csky_i2s_calc_refclk_div_default(s, rate) ==
    LET ref_clk == IF rate \in {8000, 16000, 32000, 48000, 96000}
                   THEN 3072000 ELSE 2116800
    IN  [ret |-> U32MinusOneToInt((s.src_clk \div 2) \div ref_clk),
         msg |-> "", s |-> s]

csky_i2s_calc_refclk_div(s, rate) ==
    LET ref_clk == IF rate \in Rates48k THEN 3072000 ELSE 2116800
    IN  IF rate \notin Rates48k \cup Rates44k
        THEN [ret |-> -EINVAL, msg |-> "", s |-> s]
        ELSE [ret |-> U32MinusOneToInt((s.src_clk \div 2) \div ref_clk),
              msg |-> "", s |-> s]

(***************************************************************************)
(* csky_i2s_set_clk_rate.  clk_ret and clk_rate are what clk_set_rate and  *)
(* clk_get_rate give in this call (used only when the controller owns a    *)
(* settable clock).  Returns [ret, stage, msg, s, divs, wr]: the int       *)
(* returned, the step that ended the call, the message printed, the        *)
(* updated state, the calculator results obtained so far and the divider   *)
(* registers written, in order, with clk_req and clk_got of the clock      *)
(* step.  The variable call holds these (but s) for the hw_params call     *)
(* that led to the current state, and NoCall after any other callback.     *)
(***************************************************************************)

NoDivs == [mclk_div |-> 0, spdifclk_div |-> 0, fs_div |-> 0,
           refclk_div |-> 0, sclk_div |-> 0]

\* a clock step that reprograms the source but does not read it back
SetSrcClk_stale(s, rate, clk_ret, clk_rate) ==
    LET req == IF rate \in Rates48k THEN s.clk_fs_48k ELSE s.clk_fs_44k
    IN  IF ~s.i2s_clk
        THEN [ret |-> 0, s |-> s, clk_req |-> 0, clk_got |-> 0]
        ELSE IF rate \in Rates48k \cup Rates44k
        THEN IF clk_ret # 0
             THEN [ret |-> clk_ret, s |-> s, clk_req |-> req, clk_got |-> 0]
             ELSE [ret |-> 0, s |-> s, clk_req |-> req, clk_got |-> clk_rate]
        ELSE [ret |-> -EINVAL, s |-> s, clk_req |-> 0, clk_got |-> 0]

\* lines 199-223: reprogram the settable clock source.  clk_req is the rate
\* passed to clk_set_rate and clk_got the rate clk_get_rate gave (0 when the
\* function was not called).
SetSrcClk(s, rate, clk_ret, clk_rate) ==
    LET req == IF rate \in Rates48k THEN s.clk_fs_48k ELSE s.clk_fs_44k
    IN  IF ~s.i2s_clk
        THEN [ret |-> 0, s |-> s, clk_req |-> 0, clk_got |-> 0]
        ELSE IF rate \in Rates48k \cup Rates44k
        THEN IF clk_ret # 0
             THEN [ret |-> clk_ret, s |-> s, clk_req |-> req, clk_got |-> 0]
             ELSE [ret |-> 0, s |-> [s EXCEPT !.src_clk = clk_rate],
                   clk_req |-> req, clk_got |-> clk_rate]
        ELSE [ret |-> -EINVAL, s |-> s, clk_req |-> 0, clk_got |-> 0]

\* register writes that do not test has_mclk_sclk_div
WriteDividers_all(s, d) ==
    [s |-> [s EXCEPT !.regs = [@ EXCEPT !.IIS_DIV0_LEVEL = d.mclk_div,
                                        !.IIS_DIV1_LEVEL = d.spdifclk_div,
                                        !.IIS_DIV2_LEVEL = d.fs_div,
                                        !.IIS_DIV3_LEVEL = d.refclk_div,
                                        !.IIS_DIV4_LEVEL = d.sclk_div]],
     wr |-> <<"IIS_DIV0_LEVEL", "IIS_DIV1_LEVEL", "IIS_DIV2_LEVEL",
              "IIS_DIV3_LEVEL", "IIS_DIV4_LEVEL">>]

\* lines 249-254: the register writes of a successful call; [s, wr]: the
\* state after them and the registers written, in order
WriteDividers(s, d) ==
    LET w0 == csky_i2s_writel(s, "IIS_DIV0_LEVEL", d.mclk_div)
        w1 == csky_i2s_writel(w0, "IIS_DIV1_LEVEL", d.spdifclk_div)
        w2 == csky_i2s_writel(w1, "IIS_DIV2_LEVEL", d.fs_div)
        w3 == csky_i2s_writel(w2, "IIS_DIV3_LEVEL", d.refclk_div)
        wr == <<"IIS_DIV0_LEVEL", "IIS_DIV1_LEVEL", "IIS_DIV2_LEVEL",
                "IIS_DIV3_LEVEL">>
    IN  IF s.has_mclk_sclk_div
        THEN [s |-> csky_i2s_writel(w3, "IIS_DIV4_LEVEL", d.sclk_div),
              wr |-> Append(wr, "IIS_DIV4_LEVEL")]
        ELSE [s |-> w3, wr |-> wr]

csky_i2s_set_clk_rate(s, rate, word_size, clk_ret, clk_rate) ==
    LET c   == SetSrcClk(s, rate, clk_ret, clk_rate)
        s0  == [c.s EXCEPT !.sample_rate = rate]
        fs  == csky_i2s_calc_fs_div(s0, word_size)
        d1  == [NoDivs EXCEPT !.fs_div = fs.ret]
        m   == csky_i2s_calc_mclk_div(fs.s, rate, word_size)
        d2  == [d1 EXCEPT !.mclk_div = m.ret]
        sc  == IF s.has_mclk_sclk_div
               THEN csky_i2s_calc_sclk_div(m.s)
               ELSE [ret |-> 0, msg |-> "", s |-> m.s]
        d3  == [d2 EXCEPT !.sclk_div = sc.ret]
        sp  == csky_i2s_calc_spdifclk_div(sc.s, rate, word_size)
        d4  == [d3 EXCEPT !.spdifclk_div = sp.ret]
        rf  == csky_i2s_calc_refclk_div(sp.s, rate)
        d5  == [d4 EXCEPT !.refclk_div = rf.ret]
        Fail(r, st, mg, ss, dd) ==
            [ret |-> r, stage |-> st, msg |-> mg, s |-> ss, divs |-> dd,
             wr |-> <<>>, clk_req |-> c.clk_req, clk_got |-> c.clk_got]
    IN  IF c.ret # 0 THEN Fail(c.ret, "src_clk", "", c.s, NoDivs)
        ELSE IF fs.ret < 0 THEN Fail(-EINVAL, "fs_div", fs.msg, fs.s, d1)
        ELSE IF m.ret < 0 THEN Fail(-EINVAL, "mclk_div", m.msg, m.s, d2)
        ELSE IF s.has_mclk_sclk_div /\ sc.ret < 0
             THEN Fail(-EINVAL, "sclk_div", sc.msg, sc.s, d3)
        ELSE IF sp.ret < 0 THEN Fail(-EINVAL, "spdifclk_div", sp.msg, sp.s, d4)
        ELSE IF rf.ret < 0 THEN Fail(-EINVAL, "refclk_div", rf.msg, rf.s, d5)
        ELSE [ret |-> 0, stage |-> "written", msg |-> "",
              s |-> WriteDividers(rf.s, d5).s, divs |-> d5,
              wr |-> WriteDividers(rf.s, d5).wr,
              clk_req |-> c.clk_req, clk_got |-> c.clk_got]

(***************************************************************************)
(* csky_i2s_hw_params                                                      *)
(***************************************************************************)

NoCall == [rate |-> 0, ret |-> 0, stage |-> "none", msg |-> "",
           divs |-> NoDivs, wr |-> <<>>, clk_req |-> 0, clk_got |-> 0]

csky_i2s_hw_params(s, channels, physical_width, rate, word_size, clk_ret, clk_rate) ==
    LET width == IF physical_width = 16
                 THEN (IF channels = 2 THEN 4 ELSE 2)
                 ELSE IF physical_width = 24 THEN 3 ELSE 4
        res   == IF physical_width = 16 THEN "FSSTA_RES16_FIFO16"
                 ELSE "FSSTA_RES24_FIFO24"
        s1    == csky_i2s_writel([s EXCEPT !.addr_width = width],
                                 "IIS_FSSTA", res)
        r     == csky_i2s_set_clk_rate(s1, rate, word_size, clk_ret, clk_rate)
    IN  IF channels > 2
        THEN [NoCall EXCEPT !.rate = rate, !.ret = -EINVAL,
                            !.stage = "channels"] @@ [s |-> s]
        ELSE IF physical_width \notin {16, 24, 32}
        THEN [NoCall EXCEPT !.rate = rate, !.ret = -EINVAL,
                            !.stage = "physical_width"] @@ [s |-> s]
        ELSE r @@ [rate |-> rate]

HwParams ==
    \E p \in PcmParams, rate \in Rates :
      \E clk \in (IF i2s.i2s_clk
                  THEN ClkOutcomes(SetSrcClk(i2s, rate, 0, 0).clk_req)
                  ELSE NoClk) :
        LET r == csky_i2s_hw_params(i2s, p[1], p[2], rate, p[3],
                                    clk[1], clk[2])
        IN  /\ i2s' = r.s
            /\ call' = [rate |-> r.rate, ret |-> r.ret, stage |-> r.stage,
                        msg |-> r.msg, divs |-> r.divs, wr |-> r.wr,
                        clk_req |-> r.clk_req, clk_got |-> r.clk_got]

(***************************************************************************)
(* csky_i2s_set_dai_sysclk                                                 *)
(***************************************************************************)

csky_i2s_set_dai_sysclk(s, freq) == [s EXCEPT !.mclk = freq]

SetSysclk ==
    \E freq \in Mclks :
        /\ i2s' = csky_i2s_set_dai_sysclk(i2s, freq)
        /\ call' = NoCall

(***************************************************************************)
(* csky_i2s_set_fmt: IIS_IISCNF_OUT is kept as its three fields.           *)
(***************************************************************************)

csky_i2s_set_fmt(s, format, inv, master) ==
    LET audfmt == CASE format = "SND_SOC_DAIFMT_I2S" -> "IISCNF_OUT_AUDFMT_I2S"
                    [] format = "SND_SOC_DAIFMT_LEFT_J" -> "IISCNF_OUT_AUDFMT_LEFT_J"
                    [] OTHER -> "IISCNF_OUT_AUDFMT_RIGHT_J"
        pol    == IF inv = "SND_SOC_DAIFMT_NB_NF"
                  THEN "IISCNF_OUT_WS_POLARITY_NORMAL"
                  ELSE "IISCNF_OUT_WS_POLARITY_INVERTED"
        ms     == IF master = "SND_SOC_DAIFMT_CBS_CFS"
                  THEN "IISCNF_OUT_MASTER" ELSE "IISCNF_OUT_SLAVE"
        val    == [audfmt |-> audfmt, ws_polarity |-> pol, m_s |-> ms]
    IN  IF format \notin {"SND_SOC_DAIFMT_I2S", "SND_SOC_DAIFMT_LEFT_J",
                          "SND_SOC_DAIFMT_RIGHT_J"}
        THEN [ret |-> -EINVAL, s |-> s]
        ELSE IF inv \notin {"SND_SOC_DAIFMT_NB_NF", "SND_SOC_DAIFMT_NB_IF"}
        THEN [ret |-> -EINVAL, s |-> s]
        ELSE IF master \notin {"SND_SOC_DAIFMT_CBS_CFS", "SND_SOC_DAIFMT_CBM_CFM"}
        THEN [ret |-> -EINVAL, s |-> s]
        ELSE [ret |-> 0,
              s |-> [csky_i2s_writel(s, "IIS_IISCNF_OUT", val)
                       EXCEPT !.audio_fmt = format]]

SetFmt ==
    \E fmt \in DaiFmts :
        LET r == csky_i2s_set_fmt(i2s, fmt[1], fmt[2], fmt[3])
        IN  /\ i2s' = r.s
            /\ call' = NoCall

(***************************************************************************)
(* State after csky_i2s_probe and csky_i2s_dai_probe (csky_i2s_init).       *)
(***************************************************************************)

ResetRegs ==
    [IIS_DIV0_LEVEL |-> 0, IIS_DIV1_LEVEL |-> 0, IIS_DIV2_LEVEL |-> 0,
     IIS_DIV3_LEVEL |-> 0, IIS_DIV4_LEVEL |-> 0,
     IIS_FSSTA |-> "FSSTA_RES16_FIFO16",
     IIS_IISCNF_OUT |-> [audfmt |-> "IISCNF_OUT_AUDFMT_I2S",
                         ws_polarity |-> "IISCNF_OUT_WS_POLARITY_NORMAL",
                         m_s |-> "IISCNF_OUT_MASTER"]]

\* "clock-frequency" present: fixed source clock, no clk handles
ProbedFixed(v1_1, src, dt_sclk) ==
    [has_mclk_sclk_div |-> v1_1, i2s_clk |-> FALSE, src_clk |-> src,
     clk_fs_48k |-> 0, clk_fs_44k |-> 0, mclk |-> 0, sample_rate |-> 0,
     audio_fmt |-> "SND_SOC_DAIFMT_I2S", mclk_fs_divider |-> 0,
     sclk_fs_divider |-> dt_sclk, addr_width |-> 0, regs |-> ResetRegs]

\* "clock-frequency" absent: clk "audio" is settable
ProbedClk(v1_1, src, f48, f44, dt_sclk) ==
    [ProbedFixed(v1_1, src, dt_sclk) EXCEPT
        !.i2s_clk = TRUE, !.clk_fs_48k = f48, !.clk_fs_44k = f44]

Init ==
    /\ \E v1_1 \in BOOLEAN, dt_sclk \in DtSclkFsDividers :
          \/ \E src \in SrcClks : i2s = ProbedFixed(v1_1, src, dt_sclk)
          \/ \E f48 \in ClkFs48kValues, f44 \in ClkFs44kValues :
                 i2s = ProbedClk(v1_1, f48, f48, f44, dt_sclk)
    /\ call = NoCall

Next == HwParams \/ SetSysclk \/ SetFmt

Spec == Init /\ [][Next]_vars

(***************************************************************************)
(* Properties                                                              *)
(***************************************************************************)

\* the current state follows a csky_i2s_hw_params call that reached
\* csky_i2s_set_clk_rate
RateRequested == call.stage \notin {"none", "channels", "physical_width"}

\* ... and in it csky_i2s_calc_mclk_div was called
MclkDivCalled ==
    call.stage \in {"mclk_div", "sclk_div", "spdifclk_div", "refclk_div",
                    "written"}

\* ... and csky_i2s_calc_refclk_div was called
RefclkDivCalled == call.stage \in {"refclk_div", "written"}

\* ... and mclk_fs_divider was stored (line 110)
MclkFsDividerStored ==
    /\ MclkDivCalled
    /\ call.stage = "mclk_div" => call.msg \in {"mclk mismatch", ""}

InvalidRatioMsgs == {"invalid mclk_fs_div", "mclk != 8*sclk", "mclk != 4*sclk"}

\* the generation's constraint on mclk/fs, in the words of the specification
RatioValid(rate) ==
    /\ i2s.mclk % rate = 0
    /\ IF i2s.has_mclk_sclk_div
       THEN i2s.mclk \div rate \in {256, 384, 512, 768}
       ELSE IF i2s.audio_fmt \in {"SND_SOC_DAIFMT_I2S", "SND_SOC_DAIFMT_LEFT_J"}
       THEN i2s.mclk \div rate = 8 * 64
       ELSE i2s.mclk \div rate = 4 * 64

DivRegsOf(s) == [r \in DivRegs |-> s.regs[r]]

\* C1: a rate request that fails, for whatever reason, leaves DIV0..DIV4 as
\* they were before the call.
C1_FailureWritesNoDivider ==
    [][(call'.stage # "none" /\ call'.ret # 0)
         => (DivRegsOf(i2s') = DivRegsOf(i2s) /\ call'.wr = <<>>)]_vars

\* C1 witness: a request failed in the last calculator, after every divider
\* had been computed, on a controller whose registers hold an earlier setting.
C1_Witness ==
    /\ call.stage = "refclk_div" /\ call.ret # 0
    /\ call.divs.fs_div = 31
    /\ i2s.regs.IIS_DIV2_LEVEL = 31 /\ i2s.regs.IIS_DIV3_LEVEL = 3

\* C2 (as claimed): with mclk still 0, or mclk not a multiple of the rate,
\* csky_i2s_calc_mclk_div fails with "mclk is not a multiple of fs".
C2_Original ==
    (MclkDivCalled /\ (i2s.mclk = 0 \/ i2s.mclk % call.rate # 0))
        => (/\ call.stage = "mclk_div" /\ call.ret = -EINVAL
            /\ call.msg = "mclk is not a multiple of fs")

\* C2 (amended): mclk not a multiple of the rate fails with "mclk is not a
\* multiple of fs"; mclk still 0 passes that check (0 % rate = 0) and is
\* rejected by the generation's ratio check instead.
C2_Amended ==
    MclkDivCalled =>
        /\ i2s.mclk % call.rate # 0
             => (/\ call.stage = "mclk_div" /\ call.ret = -EINVAL
                 /\ call.msg = "mclk is not a multiple of fs")
        /\ i2s.mclk = 0
             => (/\ call.stage = "mclk_div" /\ call.ret = -EINVAL
                 /\ call.msg = (IF i2s.has_mclk_sclk_div
                                THEN "invalid mclk_fs_div"
                                ELSE IF i2s.audio_fmt = "SND_SOC_DAIFMT_RIGHT_J"
                                THEN "mclk != 4*sclk" ELSE "mclk != 8*sclk"))

\* C2 witness: a request with a non-zero mclk that is no multiple of the rate.
C2_Witness ==
    MclkDivCalled /\ i2s.mclk # 0 /\ i2s.mclk % call.rate # 0

\* C3: with a valid ratio and div = S/(2*M) - 1 >= 0, csky_i2s_calc_mclk_div
\* returns div when S/(2*(div+1)) = M and fails with "mclk mismatch"
\* otherwise; S/2/M - 1 is the same number; S = 24576000, M = 12288000,
\* R = 48000 on v1.1 give 0.
C3_MclkDivRoundTrip ==
    (MclkDivCalled /\ RatioValid(call.rate)) =>
        LET S == i2s.src_clk
            M == i2s.mclk
            div == S \div (2 * M) - 1
        IN  /\ (S \div 2) \div M - 1 = div
            /\ div >= 0 =>
                 IF S \div (2 * (div + 1)) = M
                 THEN call.divs.mclk_div = div /\ call.stage # "mclk_div"
                 ELSE /\ call.stage = "mclk_div" /\ call.ret = -EINVAL
                      /\ call.msg = "mclk mismatch"
            /\ (/\ i2s.has_mclk_sclk_div /\ S = 24576000 /\ M = 12288000
                /\ call.rate = 48000) => call.divs.mclk_div = 0

\* C3 witness: the example of the specification, carried through to the
\* registers.
C3_Witness ==
    /\ call.stage = "written" /\ i2s.has_mclk_sclk_div
    /\ i2s.src_clk = 24576000 /\ i2s.mclk = 12288000 /\ call.rate = 48000
    /\ i2s.regs.IIS_DIV0_LEVEL = 0

\* C4: on v1.1 a ratio mclk/rate outside {256, 384, 512, 768} is rejected
\* with "invalid mclk_fs_div" whatever the audio format, and no request with
\* such a ratio succeeds.
C4_V1_1RatioRejected ==
    (MclkDivCalled /\ i2s.has_mclk_sclk_div /\ i2s.mclk % call.rate = 0
       /\ i2s.mclk \div call.rate \notin {256, 384, 512, 768})
        => (/\ call.stage = "mclk_div" /\ call.ret = -EINVAL
            /\ call.msg = "invalid mclk_fs_div" /\ call.wr = <<>>)

\* C4 witness: such a rejection of a non-zero mclk in RIGHT_J format.
C4_Witness ==
    /\ MclkDivCalled /\ i2s.has_mclk_sclk_div /\ i2s.mclk # 0
    /\ i2s.mclk % call.rate = 0
    /\ i2s.mclk \div call.rate \notin {256, 384, 512, 768}
    /\ i2s.audio_fmt = "SND_SOC_DAIFMT_RIGHT_J"

\* C5: on v1 a request succeeds only with mclk/rate = 8*64 (I2S, LEFT_J) or
\* 4*64 (RIGHT_J), 64 being the ratio stored by csky_i2s_calc_fs_div in the
\* same request; every other ratio is rejected by the ratio check.
C5_V1RatioFromThisRequest ==
    (MclkDivCalled /\ ~i2s.has_mclk_sclk_div) =>
        LET k == IF i2s.audio_fmt \in {"SND_SOC_DAIFMT_I2S",
                                       "SND_SOC_DAIFMT_LEFT_J"}
                 THEN 8 ELSE 4
        IN  /\ i2s.sclk_fs_divider = 64
            /\ call.stage = "written"
                 => (i2s.mclk % call.rate = 0 /\ i2s.mclk \div call.rate = k * 64)
            /\ (i2s.mclk % call.rate = 0 /\ i2s.mclk \div call.rate # k * 64)
                 => (/\ call.stage = "mclk_div" /\ call.ret = -EINVAL
                     /\ call.msg = (IF k = 8 THEN "mclk != 8*sclk"
                                    ELSE "mclk != 4*sclk"))

\* C5 witness: a v1 request in I2S format that succeeded.
C5_Witness ==
    /\ call.stage = "written" /\ ~i2s.has_mclk_sclk_div
    /\ i2s.audio_fmt = "SND_SOC_DAIFMT_I2S"
    /\ i2s.mclk = 512 * call.rate

\* C6: csky_i2s_calc_refclk_div takes 3072000 for the 48k family and 2116800
\* for the 44.1k family and returns S/(2*ref) - 1 without a round trip; any
\* other rate gets -EINVAL, so no request with such a rate succeeds, with a
\* settable or with a fixed source clock.
C6_RefClkDiv ==
    LET fam48 == {8000, 16000, 32000, 48000, 96000}
        fam44 == {11025, 22050, 44100, 88200}
    IN  /\ RefclkDivCalled =>
             IF call.rate \in fam48
             THEN call.divs.refclk_div = i2s.src_clk \div (2 * 3072000) - 1
             ELSE IF call.rate \in fam44
             THEN call.divs.refclk_div = i2s.src_clk \div (2 * 2116800) - 1
             ELSE /\ call.stage = "refclk_div"
                  /\ call.divs.refclk_div = -EINVAL /\ call.ret = -EINVAL
        /\ (RateRequested /\ call.rate \notin fam48 \cup fam44)
             => (call.ret # 0 /\ call.stage # "written" /\ call.wr = <<>>)

\* C6 witness: with a fixed source clock a request for 12000 Hz passed every
\* other calculator and was turned down by csky_i2s_calc_refclk_div.
C6_Witness ==
    /\ call.stage = "refclk_div" /\ call.rate = 12000 /\ ~i2s.i2s_clk
    /\ call.divs.refclk_div = -EINVAL

\* C7: after a successful request the registers hold the computed dividers,
\* all non-negative; DIV4 is written exactly on v1.1, and never on v1.
C7_WrittenDividersNonNegative ==
    LET written == {call.wr[k] : k \in 1..Len(call.wr)}
    IN  /\ call.stage = "written" =>
             /\ {"IIS_DIV0_LEVEL", "IIS_DIV1_LEVEL", "IIS_DIV2_LEVEL",
                 "IIS_DIV3_LEVEL"} \subseteq written
             /\ "IIS_DIV4_LEVEL" \in written <=> i2s.has_mclk_sclk_div
             /\ i2s.regs.IIS_DIV0_LEVEL = call.divs.mclk_div
             /\ i2s.regs.IIS_DIV1_LEVEL = call.divs.spdifclk_div
             /\ i2s.regs.IIS_DIV2_LEVEL = call.divs.fs_div
             /\ i2s.regs.IIS_DIV3_LEVEL = call.divs.refclk_div
             /\ i2s.has_mclk_sclk_div
                  => i2s.regs.IIS_DIV4_LEVEL = call.divs.sclk_div
             /\ \A r \in written : i2s.regs[r] >= 0
        /\ ~i2s.has_mclk_sclk_div =>
             /\ "IIS_DIV4_LEVEL" \notin written
             /\ i2s.regs.IIS_DIV4_LEVEL = ResetRegs.IIS_DIV4_LEVEL
        /\ \A r \in DivRegs : i2s.regs[r] >= 0

\* C7 witness: a successful v1.1 request with ratio 256, DIV4 holding 1.
C7_Witness ==
    /\ call.stage = "written" /\ i2s.has_mclk_sclk_div
    /\ i2s.regs.IIS_DIV4_LEVEL = 1 /\ i2s.regs.IIS_DIV1_LEVEL = 17
    /\ i2s.regs.IIS_DIV2_LEVEL = 31

(***************************************************************************)
(* C8 replays the request that led to the current state from the same      *)
(* controller with other cached fields (and, with a settable clock,        *)
(* another src_clk before the call), the clk framework answering as it     *)
(* did.                                                                    *)
(***************************************************************************)

\* caches as probe leaves them and as earlier requests leave them
CachedAlts ==
    {[mclk_fs_divider |-> 0, sclk_fs_divider |-> d, sample_rate |-> 0] :
        d \in DtSclkFsDividers}
    \cup {[mclk_fs_divider |-> 256, sclk_fs_divider |-> 64, sample_rate |-> 48000],
          [mclk_fs_divider |-> 512, sclk_fs_divider |-> 64, sample_rate |-> 44100],
          [mclk_fs_divider |-> 768, sclk_fs_divider |-> 64, sample_rate |-> 12000]}

AltSrcClks ==
    IF i2s.i2s_clk THEN {i2s.clk_fs_48k, i2s.clk_fs_44k, 4096000}
    ELSE {i2s.src_clk}

Replay(c, src) ==
    LET clk == IF ~i2s.i2s_clk THEN <<0, 0>>
               ELSE IF call.stage = "src_clk" THEN <<call.ret, 0>>
               ELSE <<0, i2s.src_clk>>
        alt == [i2s EXCEPT !.mclk_fs_divider = c.mclk_fs_divider,
                           !.sclk_fs_divider = c.sclk_fs_divider,
                           !.sample_rate = c.sample_rate,
                           !.src_clk = src]
    IN  csky_i2s_set_clk_rate(alt, call.rate, 16, clk[1], clk[2])

SameResult(r) ==
    /\ r.ret = call.ret /\ r.stage = call.stage /\ r.msg = call.msg
    /\ r.divs = call.divs /\ r.wr = call.wr
    /\ DivRegsOf(r.s) = DivRegsOf(i2s)

ReplayStoredRatio(r) ==
    /\ r.stage \in {"mclk_div", "sclk_div", "spdifclk_div", "refclk_div",
                     "written"}
    /\ r.stage = "mclk_div" => r.msg \in {"mclk mismatch", ""}

\* C8 (as claimed): the result of a request, and the cached fields after it,
\* do not depend on the cached fields before it.
C8_Original ==
    RateRequested =>
        \A c \in CachedAlts, src \in AltSrcClks :
            LET r == Replay(c, src)
            IN  /\ SameResult(r)
                /\ r.s.mclk_fs_divider = i2s.mclk_fs_divider
                /\ r.s.sclk_fs_divider = i2s.sclk_fs_divider
                /\ r.s.sample_rate = i2s.sample_rate

\* C8 (amended): the result does not depend on the cached fields; after the
\* call sample_rate and sclk_fs_divider agree once the clock step has passed
\* and mclk_fs_divider agrees once the ratio check has passed; a request that
\* fails earlier leaves the earlier value of the field in place.
C8_Amended ==
    RateRequested =>
        \A c \in CachedAlts, src \in AltSrcClks :
            LET r == Replay(c, src)
            IN  /\ SameResult(r)
                /\ IF r.stage # "src_clk"
                   THEN /\ r.s.sample_rate = i2s.sample_rate
                        /\ r.s.sclk_fs_divider = i2s.sclk_fs_divider
                        /\ i2s.sample_rate = call.rate
                        /\ i2s.sclk_fs_divider = 64
                   ELSE /\ r.s.sample_rate = c.sample_rate
                        /\ r.s.sclk_fs_divider = c.sclk_fs_divider
                /\ IF ReplayStoredRatio(r)
                   THEN /\ r.s.mclk_fs_divider = i2s.mclk_fs_divider
                        /\ i2s.mclk_fs_divider = i2s.mclk \div call.rate
                   ELSE r.s.mclk_fs_divider = c.mclk_fs_divider

\* C8 witness: a request turned down by the ratio check on a controller that
\* still caches the ratio of an earlier, successful request.
C8_Witness ==
    /\ call.stage = "mclk_div" /\ call.msg \in InvalidRatioMsgs
    /\ i2s.mclk_fs_divider # 0 /\ i2s.mclk # 0
    /\ i2s.regs.IIS_DIV2_LEVEL = 31

ConsistentWithFormat ==
    IF i2s.has_mclk_sclk_div
    THEN i2s.mclk_fs_divider \in {256, 384, 512, 768}
    ELSE IF i2s.audio_fmt \in {"SND_SOC_DAIFMT_I2S", "SND_SOC_DAIFMT_LEFT_J"}
    THEN i2s.mclk_fs_divider = 8 * i2s.sclk_fs_divider
    ELSE i2s.mclk_fs_divider = 4 * i2s.sclk_fs_divider

\* C9 (as claimed): once computed, mclk_fs_divider is in {256, 384, 512, 768}
\* on v1.1 and is 8 or 4 times sclk_fs_divider, by the current format, on v1.
C9_Original == i2s.mclk_fs_divider # 0 => ConsistentWithFormat

\* C9 (amended): once computed, mclk_fs_divider is in {256, 384, 512, 768} on
\* v1.1; on v1 it is 8 or 4 times sclk_fs_divider by the format of the
\* request that stored it, so it matches the current format right after that
\* request, and is one of the two products at any time.
C9_Amended ==
    i2s.mclk_fs_divider # 0 =>
        /\ i2s.has_mclk_sclk_div => i2s.mclk_fs_divider \in {256, 384, 512, 768}
        /\ ~i2s.has_mclk_sclk_div =>
             /\ i2s.sclk_fs_divider = 64
             /\ i2s.mclk_fs_divider \in {8 * i2s.sclk_fs_divider,
                                         4 * i2s.sclk_fs_divider}
        /\ MclkFsDividerStored => ConsistentWithFormat

\* C9 witness: a v1 request in RIGHT_J format stored ratio 256.
C9_Witness ==
    /\ MclkFsDividerStored /\ ~i2s.has_mclk_sclk_div
    /\ i2s.audio_fmt = "SND_SOC_DAIFMT_RIGHT_J"
    /\ i2s.mclk_fs_divider = 256

NegativeCandidate ==
    /\ MclkDivCalled /\ RatioValid(call.rate)
    /\ i2s.src_clk \div (2 * i2s.mclk) - 1 < 0

\* C10 (as claimed): a negative candidate S/(2*M) - 1 with a valid ratio is
\* accepted: the master-clock step does not fail the request.
C10_Original == NegativeCandidate => call.stage # "mclk_div"

\* C10 (amended): a negative candidate skips the round trip (no "mclk
\* mismatch"), csky_i2s_calc_mclk_div returns it (-1), and
\* csky_i2s_set_clk_rate takes the negative return for a failure: the
\* request ends with -EINVAL and no register is written.
C10_Amended ==
    NegativeCandidate =>
        /\ call.stage = "mclk_div" /\ call.msg = ""
        /\ call.divs.mclk_div = -1
        /\ call.ret = -EINVAL /\ call.wr = <<>>
        /\ i2s.mclk_fs_divider = i2s.mclk \div call.rate

\* C10 witness: source clock equal to mclk, ratio 512.
C10_Witness ==
    /\ NegativeCandidate /\ i2s.src_clk = i2s.mclk
    /\ i2s.mclk = 512 * call.rate

\* the dividers that call c obtained from a source clock are those of source
\* clock S with master clock M
DividersFrom(c, S, M) ==
    /\ (c.stage \in {"sclk_div", "spdifclk_div", "refclk_div", "written"}
          \/ (c.stage = "mclk_div" /\ c.msg = ""))
         => c.divs.mclk_div = (S \div 2) \div M - 1
    /\ (c.stage = "mclk_div" /\ c.msg = "mclk mismatch")
         => S \div (2 * ((S \div 2) \div M)) # M
    /\ (c.stage \in {"refclk_div", "written"}
          /\ c.rate \in {8000, 16000, 32000, 48000, 96000})
         => c.divs.refclk_div = (S \div 2) \div 3072000 - 1
    /\ (c.stage \in {"refclk_div", "written"}
          /\ c.rate \in {11025, 22050, 44100, 88200})
         => c.divs.refclk_div = (S \div 2) \div 2116800 - 1

\* C11: with a settable clock a rate request first asks clk_set_rate for the
\* family frequency of the rate and stores the read-back rate in src_clk, and
\* every divider of the request comes from that new src_clk; a failed
\* clk_set_rate ends the request before any calculator has run.  With a
\* fixed source clock no clk function is called and src_clk stays as it was.
C11_SrcClkBeforeDividers ==
    [][(call'.stage \notin {"none", "channels", "physical_width"}) =>
         IF i2s.i2s_clk
         THEN /\ call'.rate \in {8000, 16000, 32000, 48000, 96000}
                   => call'.clk_req = i2s.clk_fs_48k
              /\ call'.rate \in {11025, 22050, 44100, 88200}
                   => call'.clk_req = i2s.clk_fs_44k
              /\ IF call'.stage = "src_clk"
                 THEN /\ call'.ret # 0 /\ call'.clk_got = 0
                      /\ call'.divs = NoDivs /\ call'.wr = <<>>
                      /\ i2s'.src_clk = i2s.src_clk
                      /\ i2s'.sample_rate = i2s.sample_rate
                      /\ i2s'.sclk_fs_divider = i2s.sclk_fs_divider
                      /\ i2s'.mclk_fs_divider = i2s.mclk_fs_divider
                 ELSE /\ call'.clk_req # 0
                      /\ i2s'.src_clk = call'.clk_got
                      /\ DividersFrom(call', call'.clk_got, i2s'.mclk)
         ELSE /\ call'.clk_req = 0 /\ call'.clk_got = 0
              /\ call'.stage # "src_clk"
              /\ i2s'.src_clk = i2s.src_clk
              /\ DividersFrom(call', i2s.src_clk, i2s'.mclk)]_vars

\* C11 witness: a 44100 Hz request on a settable clock, probed at the 48k
\* family rate, succeeded with the dividers of the 44.1k family rate (with
\* the rate of before the call the round trip of mclk would have failed).
C11_Witness ==
    /\ i2s.i2s_clk /\ call.stage = "written" /\ call.rate = 44100
    /\ call.clk_req = i2s.clk_fs_44k /\ call.clk_got = i2s.clk_fs_44k
    /\ i2s.src_clk = 22579200 /\ i2s.mclk = 11289600
    /\ i2s.regs.IIS_DIV0_LEVEL = 0 /\ i2s.regs.IIS_DIV3_LEVEL = 4

====
